---- MODULE Spec2Model ----
(***************************************************************************)
(* rsvg_internals: viewport establishment (viewport.rs, draw_in_viewport)  *)
(* and the feMerge filter primitive (filters/merge.rs, Merge::render and   *)
(* MergeNode::render).                                                     *)
(*                                                                         *)
(* f64 values are modelled as exact rationals <<numerator, denominator>>   *)
(* in lowest terms with a positive denominator; <<1, 0>> and <<-1, 0>> are *)
(* the infinities and <<0, 0>> is NaN.  Pixels are premultiplied 8-bit     *)
(* <<alpha, colour>> pairs.                                                *)
(***************************************************************************)
EXTENDS Integers, Sequences, FiniteSets, TLC

VARIABLES
    \* ---- DrawingCtx, as draw_in_viewport sees it ----
    matrix,      \* the cairo context's current transformation matrix
    clips,       \* clip rectangles in effect, each with the matrix it was set under
    viewBoxes,   \* DrawingCtx's view-box (coordinate frame) stack
    layers,      \* discrete layers entered and not yet left (saved cairo state)
    toplevel,    \* the arguments of the outermost call, and whether it was made
    stack,       \* active draw_in_viewport calls, innermost last, each inside draw_fn
    ret,         \* what the call that returned last did, if none was made since
    \* ---- Merge::render ----
    ctx,         \* FilterContext: source graphic, named results, last result
    node,        \* the feMerge node: children, base.result
    bounds,      \* self.base.get_bounds(ctx)
    idx,         \* position of the children() iterator
    output,      \* output_surface: the accumulator (Option<ImageSurface>)
    calls,       \* backend / context calls made so far by this render
    pc,          \* "loop" while iterating, "done" once Merge::render has returned
    result       \* Result<FilterResult, FilterError> of Merge::render

vars == <<matrix, clips, viewBoxes, layers, toplevel, stack, ret,
          ctx, node, bounds, idx, output, calls, pc, result>>

viewportVars == <<matrix, clips, viewBoxes, layers, toplevel, stack, ret>>
mergeVars == <<ctx, node, bounds, idx, output, calls, pc, result>>

-----------------------------------------------------------------------------
(* Bounds of the model *)

MaxDepth == 2        \* nesting depth of draw_in_viewport calls
MaxNested == 1       \* draw_in_viewport calls one draw_fn makes
MaxChildren == 3     \* children of the feMerge node

-----------------------------------------------------------------------------
(* f64 arithmetic, exact *)

Abs(n) == IF n < 0 THEN -n ELSE n

RECURSIVE GCD(_, _)
GCD(a, b) == IF b = 0 THEN a ELSE GCD(b, a % b)

Sign(n) == IF n < 0 THEN -1 ELSE IF n = 0 THEN 0 ELSE 1

Rat(n, d) ==
    IF d = 0 THEN <<Sign(n), 0>>
    ELSE <<(Sign(d) * n) \div GCD(Abs(n), Abs(d)), Abs(d) \div GCD(Abs(n), Abs(d))>>

R(n) == <<n, 1>>
RAdd(a, b) == Rat(a[1] * b[2] + b[1] * a[2], a[2] * b[2])
RSub(a, b) == Rat(a[1] * b[2] - b[1] * a[2], a[2] * b[2])
RMul(a, b) == Rat(a[1] * b[1], a[2] * b[2])
RDiv(a, b) == Rat(a[1] * b[2], a[2] * b[1])
RNeg(a) == <<-a[1], a[2]>>
RLt(a, b) == a[1] * b[2] < b[1] * a[2]
RMin(a, b) == IF RLt(b, a) THEN b ELSE a
RMax(a, b) == IF RLt(a, b) THEN b ELSE a
RAbs(a) == <<Abs(a[1]), a[2]>>

\* float_eq_cairo::ApproxEqCairo: equal within cairo's 24.8 fixed-point resolution
CairoFixedOne == 256
ApproxEqCairo(a, b) == RLt(RAbs(RSub(a, b)), Rat(1, CairoFixedOne))

-----------------------------------------------------------------------------
(* cairo::Matrix: <<xx, yx, xy, yy, x0, y0>> *)

Identity == <<R(1), R(0), R(0), R(1), R(0), R(0)>>

\* cairo_matrix_translate: the translation is applied before the old matrix
MatrixTranslate(m, tx, ty) ==
    <<m[1], m[2], m[3], m[4],
      RAdd(m[5], RAdd(RMul(tx, m[1]), RMul(ty, m[3]))),
      RAdd(m[6], RAdd(RMul(tx, m[2]), RMul(ty, m[4])))>>

\* cairo_matrix_scale: the scale is applied before the old matrix
MatrixScale(m, sx, sy) ==
    <<RMul(m[1], sx), RMul(m[2], sx), RMul(m[3], sy), RMul(m[4], sy), m[5], m[6]>>

-----------------------------------------------------------------------------
(* Values of draw_in_viewport's parameters *)

Rect(x, y, w, h) == [x |-> x, y |-> y, width |-> w, height |-> h]

\* Option<ViewBox>
NoVBox == [some |-> FALSE, x |-> R(0), y |-> R(0), width |-> R(0), height |-> R(0)]
SomeVBox(x, y, w, h) == [some |-> TRUE, x |-> x, y |-> y, width |-> w, height |-> h]

\* Option<ClipMode>
ClipModes == {"None", "ClipToViewport", "ClipToVbox"}

\* AspectRatio: preserveAspectRatio="none", or an alignment per axis and a fit
ParNone == [preserve |-> FALSE, x |-> "Mid", y |-> "Mid", fit |-> "Meet"]
Par(ax, ay, fit) == [preserve |-> TRUE, x |-> ax, y |-> ay, fit |-> fit]

Viewports ==
    { Rect(R(0), R(0), R(100), R(50)),
      Rect(R(10), R(20), R(100), R(100)),
      Rect(R(0), R(0), R(0), R(50)),
      Rect(R(10), R(20), R(100), R(0)),
      Rect(R(0), R(0), Rat(1, 512), R(50)) }

VBoxes ==
    { NoVBox,
      SomeVBox(R(0), R(0), R(50), R(50)),
      SomeVBox(R(5), R(10), R(40), R(30)),
      SomeVBox(R(0), R(0), R(0), R(50)),
      SomeVBox(R(5), R(10), R(40), R(0)),
      SomeVBox(R(5), R(10), Rat(1, 512), R(30)) }

Pars == { ParNone, Par("Mid", "Mid", "Meet"), Par("Min", "Max", "Slice") }

Affines == { Identity, <<R(2), R(0), R(1), R(3), R(7), R(11)>> }

\* Result<(), RenderingError>
Results == {"Ok", "Cairo", "CircularReference"}

\* the calls a draw_fn makes from inside an established viewport
NestedViewports ==
    { Rect(R(0), R(0), R(100), R(50)),
      Rect(R(10), R(20), R(100), R(0)) }

NestedVBoxes ==
    { NoVBox,
      SomeVBox(R(0), R(0), R(50), R(50)),
      SomeVBox(R(5), R(10), R(40), R(0)) }

-----------------------------------------------------------------------------
(* AspectRatio::compute *)

Align1D(align, dest_pos, dest_size, obj_size) ==
    CASE align = "Min" -> dest_pos
      [] align = "Mid" -> RAdd(dest_pos, RDiv(RSub(dest_size, obj_size), R(2)))
      [] align = "Max" -> RSub(RAdd(dest_pos, dest_size), obj_size)

AspectRatioCompute(par, vbox, viewport) ==
    IF ~par.preserve
    THEN <<viewport.x, viewport.y, viewport.width, viewport.height>>
    ELSE LET w_factor == RDiv(viewport.width, vbox.width)
             h_factor == RDiv(viewport.height, vbox.height)
             factor == IF par.fit = "Meet" THEN RMin(w_factor, h_factor)
                                           ELSE RMax(w_factor, h_factor)
             w == RMul(vbox.width, factor)
             h == RMul(vbox.height, factor)
         IN  <<Align1D(par.x, viewport.x, viewport.width, w),
               Align1D(par.y, viewport.y, viewport.height, h), w, h>>

-----------------------------------------------------------------------------
(* DrawingCtx operations used by draw_in_viewport.  A drawing context is   *)
(* the record [matrix, clips, viewBoxes, layers].                          *)

Op(name, arg) == [op |-> name, arg |-> arg]
RectArg(r) == <<r.x, r.y, r.width, r.height>>

\* dc.get_cairo_context().set_matrix(m)
SetMatrix(dc, m) == [dc EXCEPT !.matrix = m]

\* dc.clip(x, y, w, h): intersects the clip with the rectangle, in user space
Clip(dc, r) ==
    [dc EXCEPT !.clips = Append(@, [rect |-> RectArg(r), under |-> dc.matrix])]

\* dc.push_view_box(w, h): the ViewParams it returns pops the frame when dropped
PushViewBox(dc, w, h) == [dc EXCEPT !.viewBoxes = Append(@, <<w, h>>)]
DropViewParams(dc) == [dc EXCEPT !.viewBoxes = SubSeq(@, 1, Len(@) - 1)]

\* dc.with_discrete_layer(...): a layer around the closure, left on its return
EnterLayer(dc) ==
    [dc EXCEPT !.layers = Append(@, [matrix |-> dc.matrix, clips |-> dc.clips])]
LeaveLayer(dc) ==
    [dc EXCEPT !.layers = SubSeq(@, 1, Len(@) - 1),
               !.matrix = dc.layers[Len(dc.layers)].matrix,
               !.clips = dc.layers[Len(dc.layers)].clips]

-----------------------------------------------------------------------------
(* draw_in_viewport.  A run of its body is the record [dc, ops, returned]: *)
(* the drawing context, the calls made on it so far, in order, and whether *)
(* the closure has returned before binding _params.                        *)

Args(viewport, clip_mode, vbox, par, affine, clipping) ==
    [viewport |-> viewport, clip_mode |-> clip_mode, vbox |-> vbox,
     preserve_aspect_ratio |-> par, affine |-> affine, clipping |-> clipping]

Start(dc) == [dc |-> dc, ops |-> <<>>, returned |-> FALSE]

\* viewport.width.approx_eq_cairo(&0.0) || viewport.height.approx_eq_cairo(&0.0)
ViewportDisabledWidthOnly(viewport) == ApproxEqCairo(viewport.width, R(0))

ViewportDisabled(viewport) ==
    ApproxEqCairo(viewport.width, R(0)) \/ ApproxEqCairo(viewport.height, R(0))

\* vbox.width.approx_eq_cairo(&0.0) || vbox.height.approx_eq_cairo(&0.0)
VBoxDisabledWidthOnly(vbox) == ApproxEqCairo(vbox.width, R(0))

VBoxDisabled(vbox) ==
    ApproxEqCairo(vbox.width, R(0)) \/ ApproxEqCairo(vbox.height, R(0))

\* draw_ctx.with_discrete_layer(node, values, clipping, closure): entry
WithDiscreteLayer(st) ==
    [st EXCEPT !.dc = EnterLayer(@), !.ops = Append(@, Op("layer_enter", <<>>))]

\* if clip_mode == Some(ClipToViewport) { set_matrix(affine); clip(viewport) }
ClipToViewport(st, a) ==
    [st EXCEPT
        !.dc = IF a.clip_mode = "ClipToViewport"
               THEN Clip(SetMatrix(@, a.affine), a.viewport) ELSE @,
        !.ops = IF a.clip_mode = "ClipToViewport"
                THEN @ \o <<Op("set_matrix", a.affine),
                            Op("clip", RectArg(a.viewport))>>
                ELSE @]

\* affine.translate(x, y); affine.scale(w / vbox.width, h / vbox.height);
\* affine.translate(-vbox.x, -vbox.y)
VBoxAffineIgnoringPolicy(affine, vbox, viewport, par) ==
    MatrixTranslate(
        MatrixScale(
            MatrixTranslate(affine, viewport.x, viewport.y),
            RDiv(viewport.width, vbox.width),
            RDiv(viewport.height, vbox.height)),
        RNeg(vbox.x), RNeg(vbox.y))

VBoxAffine(affine, vbox, viewport, par) ==
    MatrixTranslate(
        MatrixScale(
            MatrixTranslate(affine,
                            AspectRatioCompute(par, vbox, viewport)[1],
                            AspectRatioCompute(par, vbox, viewport)[2]),
            RDiv(AspectRatioCompute(par, vbox, viewport)[3], vbox.width),
            RDiv(AspectRatioCompute(par, vbox, viewport)[4], vbox.height)),
        RNeg(vbox.x), RNeg(vbox.y))

\* the Some(vbox) arm past its guard: push_view_box, set_matrix, ClipToVbox clip
WithVBoxClipFirst(st, a, m) ==
    [st EXCEPT
        !.dc = IF a.clip_mode = "ClipToVbox"
               THEN SetMatrix(Clip(PushViewBox(@, a.vbox.width, a.vbox.height),
                                   a.vbox), m)
               ELSE SetMatrix(PushViewBox(@, a.vbox.width, a.vbox.height), m),
        !.ops = IF a.clip_mode = "ClipToVbox"
                THEN @ \o <<Op("push_view_box", <<a.vbox.width, a.vbox.height>>),
                            Op("clip", RectArg(a.vbox)),
                            Op("set_matrix", m)>>
                ELSE @ \o <<Op("push_view_box", <<a.vbox.width, a.vbox.height>>),
                            Op("set_matrix", m)>>]

WithVBox(st, a, m) ==
    [st EXCEPT
        !.dc = IF a.clip_mode = "ClipToVbox"
               THEN Clip(SetMatrix(PushViewBox(@, a.vbox.width, a.vbox.height), m),
                         a.vbox)
               ELSE SetMatrix(PushViewBox(@, a.vbox.width, a.vbox.height), m),
        !.ops = IF a.clip_mode = "ClipToVbox"
                THEN @ \o <<Op("push_view_box", <<a.vbox.width, a.vbox.height>>),
                            Op("set_matrix", m),
                            Op("clip", RectArg(a.vbox))>>
                ELSE @ \o <<Op("push_view_box", <<a.vbox.width, a.vbox.height>>),
                            Op("set_matrix", m)>>]

\* the None arm: push_view_box(viewport), translate, set_matrix
WithoutVBox(st, a, m) ==
    [st EXCEPT
        !.dc = SetMatrix(PushViewBox(@, a.viewport.width, a.viewport.height), m),
        !.ops = @ \o <<Op("push_view_box", <<a.viewport.width, a.viewport.height>>),
                       Op("set_matrix", m)>>]

\* let res = draw_fn(dc)
InvokeDrawFn(st) == [st EXCEPT !.ops = Append(@, Op("draw_fn", <<>>))]

\* the closure up to the call of draw_fn; the zero-vbox `return Ok(())` is
\* taken before _params is bound
Closure(st, a) ==
    IF a.vbox.some
    THEN IF VBoxDisabled(a.vbox)
         THEN [ClipToViewport(st, a) EXCEPT !.returned = TRUE]
         ELSE InvokeDrawFn(
                WithVBox(ClipToViewport(st, a), a,
                         VBoxAffine(a.affine, a.vbox, a.viewport,
                                    a.preserve_aspect_ratio)))
    ELSE InvokeDrawFn(
           WithoutVBox(ClipToViewport(st, a), a,
                       MatrixTranslate(a.affine, a.viewport.x, a.viewport.y)))

\* the end of the closure's scope: _params, when bound, is dropped
CloseScopeLeaking(st, bound) == st

CloseScope(st, bound) ==
    [st EXCEPT !.dc = IF bound THEN DropViewParams(@) ELSE @,
               !.ops = IF bound THEN Append(@, Op("pop_view_box", <<>>)) ELSE @]

\* with_discrete_layer returns: the layer is left
LayerReturn(st) ==
    [st EXCEPT !.dc = LeaveLayer(@), !.ops = Append(@, Op("layer_exit", <<>>))]

\* the value draw_in_viewport returns when draw_fn returned res
PropagateSwallowed(res) == "Ok"

Propagate(res) == res

-----------------------------------------------------------------------------
(* The state machine of draw_in_viewport calls *)

Dc == [matrix |-> matrix, clips |-> clips, viewBoxes |-> viewBoxes, layers |-> layers]

NoArgs == Args(Rect(R(0), R(0), R(0), R(0)), "None", NoVBox, ParNone, Identity, FALSE)

NoDc == [matrix |-> Identity, clips |-> <<>>, viewBoxes |-> <<>>, layers |-> <<>>]

NoRet == [valid |-> FALSE, args |-> NoArgs, ops |-> <<>>, draws |-> 0,
          res |-> "Ok", fnres |-> "Ok", before |-> NoDc, after |-> NoDc, depth |-> 0]

Returned(a, ops, draws, res, fnres, before, after, depth) ==
    [valid |-> TRUE, args |-> a, ops |-> ops, draws |-> draws, res |-> res,
     fnres |-> fnres, before |-> before, after |-> after, depth |-> depth]

Top == stack[Len(stack)]

\* the enclosing draw_fn, if any, has made one more call
Noted == IF stack = <<>> THEN stack
         ELSE [stack EXCEPT ![Len(stack)].nested = @ + 1]

SetDc(dc) ==
    /\ matrix' = dc.matrix
    /\ clips' = dc.clips
    /\ viewBoxes' = dc.viewBoxes
    /\ layers' = dc.layers

CanCall ==
    IF stack = <<>> THEN ~toplevel.called
    ELSE Len(stack) < MaxDepth /\ Top.nested < MaxNested

\* draw_in_viewport is called with a zero-sized viewport: `return Ok(())`
CallDisabledViewport(a) ==
    /\ CanCall
    /\ ViewportDisabled(a.viewport)
    /\ ret' = Returned(a, <<>>, 0, "Ok", "Ok", Dc, Dc, Len(stack))
    /\ stack' = Noted
    /\ toplevel' = [toplevel EXCEPT !.called = TRUE]
    /\ UNCHANGED <<matrix, clips, viewBoxes, layers>>

\* draw_in_viewport is called and the closure returns at the zero-vbox guard
CallDisabledVBox(a) ==
    /\ CanCall
    /\ ~ViewportDisabled(a.viewport)
    /\ \E c \in { Closure(WithDiscreteLayer(Start(Dc)), a) } :
       \E e \in { LayerReturn(CloseScope(c, FALSE)) } :
           /\ c.returned
           /\ ret' = Returned(a, e.ops, 0, "Ok", "Ok", Dc, e.dc, Len(stack))
           /\ stack' = Noted
           /\ toplevel' = [toplevel EXCEPT !.called = TRUE]
           /\ SetDc(e.dc)

\* draw_in_viewport is called and reaches draw_fn, which is now running
CallDraw(a) ==
    /\ CanCall
    /\ ~ViewportDisabled(a.viewport)
    /\ \E c \in { Closure(WithDiscreteLayer(Start(Dc)), a) } :
           /\ ~c.returned
           /\ stack' = Append(Noted, [args |-> a, ops |-> c.ops, draws |-> 1,
                                      before |-> Dc, nested |-> 0])
           /\ toplevel' = [toplevel EXCEPT !.called = TRUE]
           /\ SetDc(c.dc)
           /\ ret' = NoRet

\* the innermost draw_fn returns res; the closure and with_discrete_layer return it
DrawFnReturn(res) ==
    /\ stack # <<>>
    /\ \E f \in { Top } :
       \E e \in { LayerReturn(CloseScope([Start(Dc) EXCEPT !.ops = f.ops], TRUE)) } :
           /\ ret' = Returned(f.args, e.ops, f.draws, Propagate(res), res,
                              f.before, e.dc, Len(stack) - 1)
           /\ stack' = SubSeq(stack, 1, Len(stack) - 1)
           /\ SetDc(e.dc)
           /\ UNCHANGED toplevel

\* arguments of the outermost call (clipping is false: the element is drawn,
\* not used as a clip path)
TopArgs ==
    { Args(v, c, b, p, m, FALSE) :
        v \in Viewports, c \in ClipModes, b \in VBoxes, p \in Pars, m \in Affines }

\* arguments of the next call: inside a draw_fn the affine is the context's
\* current matrix and clipping is the enclosing call's
CallArgs ==
    IF stack = <<>>
    THEN { toplevel.args }
    ELSE { Args(v, c, b, p, matrix, Top.args.clipping) :
             v \in NestedViewports, c \in ClipModes, b \in NestedVBoxes,
             p \in {Par("Mid", "Mid", "Meet")} }

InitViewport ==
    /\ matrix = Identity
    /\ clips = <<>>
    /\ viewBoxes = <<>>
    /\ layers = <<>>
    /\ toplevel \in [args : TopArgs, called : {FALSE}]
    /\ stack = <<>>
    /\ ret = NoRet
    /\ ctx = [source_graphic |-> <<>>]
    /\ node = <<>>
    /\ bounds = <<>>
    /\ idx = 0
    /\ output = <<>>
    /\ calls = <<>>
    /\ pc = "idle"
    /\ result = <<>>

NextViewport ==
    \/ \E a \in CallArgs : CallDisabledViewport(a) /\ UNCHANGED mergeVars
    \/ \E a \in CallArgs : CallDisabledVBox(a) /\ UNCHANGED mergeVars
    \/ \E a \in CallArgs : CallDraw(a) /\ UNCHANGED mergeVars
    \/ \E res \in Results : DrawFnReturn(res) /\ UNCHANGED mergeVars

SpecViewport == InitViewport /\ [][NextViewport]_vars

-----------------------------------------------------------------------------
(* Properties of draw_in_viewport *)

IsZero(x) == x = R(0)
NearZero(x) == Abs(x[1]) * 256 < x[2]
ZeroSized(r) == IsZero(r.width) \/ IsZero(r.height)
Degenerate(r) == NearZero(r.width) \/ NearZero(r.height)

Frames == { stack[i] : i \in 1..Len(stack) }

\* every call in progress or just returned: its arguments and what it has done
Runs ==
    { [args |-> f.args, ops |-> f.ops, done |-> FALSE] : f \in Frames }
    \cup (IF ret.valid
          THEN { [args |-> ret.args, ops |-> ret.ops, done |-> TRUE] }
          ELSE {})

Has(ops, name) == \E i \in 1..Len(ops) : ops[i].op = name
Count(ops, name) == Cardinality({ i \in 1..Len(ops) : ops[i].op = name })
Where(ops, name) == CHOOSE i \in 1..Len(ops) : ops[i].op = name

\* C1: a call with a zero-width or zero-height viewport returns Ok having
\* made no call on the drawing context at all (no layer, set_matrix, clip,
\* push_view_box, draw_fn) and leaves the context as it found it; no draw_fn
\* is ever running on behalf of such a call.
ZeroViewportDrawsNothing ==
    /\ (ret.valid /\ ZeroSized(ret.args.viewport)) =>
          /\ ret.res = "Ok"
          /\ ret.draws = 0
          /\ ret.ops = <<>>
          /\ ret.after = ret.before
    /\ \A f \in Frames : ~ZeroSized(f.args.viewport)

\* a zero-height viewport with a vbox, a clip mode, made from inside a draw_fn
ZeroViewportWitness ==
    /\ ret.valid
    /\ IsZero(ret.args.viewport.height)
    /\ ret.args.vbox.some
    /\ ret.args.clip_mode = "ClipToViewport"
    /\ ret.depth = 1

\* C2: a call with a non-degenerate viewport and a present vbox of zero
\* width or height returns Ok without invoking draw_fn and without pushing a
\* view box, whatever the clip mode and the aspect-ratio policy.
ZeroVBoxDrawsNothing ==
    /\ (/\ ret.valid
        /\ ~Degenerate(ret.args.viewport)
        /\ ret.args.vbox.some
        /\ ZeroSized(ret.args.vbox)) =>
          /\ ret.res = "Ok"
          /\ ret.draws = 0
          /\ ~Has(ret.ops, "draw_fn")
          /\ ~Has(ret.ops, "push_view_box")
          /\ ret.after.viewBoxes = ret.before.viewBoxes
    /\ \A f \in Frames : ~(f.args.vbox.some /\ ZeroSized(f.args.vbox))

ZeroVBoxWitness ==
    /\ ret.valid
    /\ ~Degenerate(ret.args.viewport)
    /\ ret.args.vbox.some
    /\ IsZero(ret.args.vbox.height)
    /\ ret.args.clip_mode = "ClipToViewport"
    /\ ret.args.preserve_aspect_ratio.preserve

\* C3: when a call has returned, by whichever path, the layer stack and the
\* view-box stack are what they were when it was made; between calls the
\* layers and view boxes held are exactly those of the calls in progress.
ScopesReleased ==
    /\ ret.valid =>
          /\ ret.after.layers = ret.before.layers
          /\ ret.after.viewBoxes = ret.before.viewBoxes
          /\ Len(ret.after.layers) = ret.depth
          /\ Len(ret.after.viewBoxes) = ret.depth
    /\ Len(layers) = Len(stack)
    /\ Len(viewBoxes) = Len(stack)

\* a nested call whose draw_fn failed has returned into its caller's draw_fn
ScopesReleasedWitness ==
    /\ ret.valid
    /\ ret.depth = 1
    /\ ret.draws = 1
    /\ ret.res = "Cairo"
    /\ Len(stack) = 1

\* C4: with a non-degenerate viewport and an absent or non-degenerate vbox,
\* draw_fn is invoked exactly once, after push_view_box, set_matrix and any
\* clip, and nothing but the release of the frame and the layer follows it;
\* the call returns what draw_fn returned.
DrawFnOnceAndPropagated ==
    \A r \in Runs :
        (/\ ~Degenerate(r.args.viewport)
         /\ (~r.args.vbox.some \/ ~Degenerate(r.args.vbox))) =>
            /\ Count(r.ops, "draw_fn") = 1
            /\ Has(r.ops, "push_view_box")
            /\ Has(r.ops, "set_matrix")
            /\ \A i \in 1..Len(r.ops) :
                  /\ r.ops[i].op \in {"layer_enter", "push_view_box", "set_matrix", "clip"}
                        => i < Where(r.ops, "draw_fn")
                  /\ r.ops[i].op \in {"pop_view_box", "layer_exit"}
                        => i > Where(r.ops, "draw_fn")
            /\ r.done => /\ ret.draws = 1
                         /\ ret.res = ret.fnres

DrawFnOnceWitness ==
    /\ ret.valid
    /\ ret.draws = 1
    /\ ret.fnres = "CircularReference"
    /\ ret.args.clip_mode = "ClipToVbox"
    /\ ret.args.vbox.some

\* C9: for viewport (0, 0, 100, 50), vbox (0, 0, 50, 50) and xMidYMid meet
\* the matrix set for draw_fn is the incoming affine with a translation by
\* (25, 0) applied first and no scaling: (1, 0, 0, 1, 25, 0) on the identity.
\* In general the matrix set after push_view_box is translate(x, y), then
\* scale(w / vbox.width, h / vbox.height), then translate(-vbox.x, -vbox.y)
\* on the incoming affine, for the (x, y, w, h) of the aspect-ratio policy.
C9Args(a) ==
    /\ a.viewport = Rect(R(0), R(0), R(100), R(50))
    /\ a.vbox = SomeVBox(R(0), R(0), R(50), R(50))
    /\ a.preserve_aspect_ratio = Par("Mid", "Mid", "Meet")

C9Expected(m) ==
    <<m[1], m[2], m[3], m[4],
      RAdd(m[5], RMul(R(25), m[1])), RAdd(m[6], RMul(R(25), m[2]))>>

\* translate(x, y), scale(sx, sy), translate(-vx, -vy) applied in that order
\* before m, in closed form, for c = (x, y, w, h)
Composed(m, c, vbox) ==
    <<RMul(m[1], RDiv(c[3], vbox.width)), RMul(m[2], RDiv(c[3], vbox.width)),
      RMul(m[3], RDiv(c[4], vbox.height)), RMul(m[4], RDiv(c[4], vbox.height)),
      RAdd(m[5], RAdd(RMul(m[1], RSub(c[1], RMul(vbox.x, RDiv(c[3], vbox.width)))),
                      RMul(m[3], RSub(c[2], RMul(vbox.y, RDiv(c[4], vbox.height)))))),
      RAdd(m[6], RAdd(RMul(m[2], RSub(c[1], RMul(vbox.x, RDiv(c[3], vbox.width)))),
                      RMul(m[4], RSub(c[2], RMul(vbox.y, RDiv(c[4], vbox.height))))))>>

MeetMidMidTransform ==
    /\ \A r \in Runs : (r.args.vbox.some /\ Has(r.ops, "push_view_box")) =>
          r.ops[Where(r.ops, "push_view_box") + 1] =
              Op("set_matrix",
                 Composed(r.args.affine,
                          AspectRatioCompute(r.args.preserve_aspect_ratio,
                                             r.args.vbox, r.args.viewport),
                          r.args.vbox))
    /\ \A r \in Runs : C9Args(r.args) =>
          \E i \in 1..Len(r.ops) :
              /\ r.ops[i] = Op("set_matrix", C9Expected(r.args.affine))
              /\ i + 1 \in 1..Len(r.ops)
              /\ r.ops[i + 1].op \in {"clip", "draw_fn"}
              /\ r.args.affine = Identity =>
                    r.ops[i].arg = <<R(1), R(0), R(0), R(1), R(25), R(0)>>
    /\ (stack # <<>> /\ ret = NoRet /\ C9Args(Top.args)) =>
          matrix = C9Expected(Top.args.affine)

MeetMidMidWitness ==
    /\ stack # <<>>
    /\ ret = NoRet
    /\ C9Args(Top.args)
    /\ Top.args.affine # Identity
    /\ matrix = <<R(2), R(0), R(1), R(3), R(57), R(11)>>

\* C10: a call clips at most once.  With ClipToViewport the clip is the
\* viewport rectangle, set right after set_matrix(incoming affine) and before
\* any push_view_box or viewBox matrix.  With ClipToVbox the clip is the vbox
\* rectangle, set right after the viewBox matrix is set, and only if a vbox
\* is present.  Otherwise nothing is clipped before draw_fn.
ClipOrder ==
    \A r \in Runs :
        /\ Count(r.ops, "clip") <= 1
        /\ (r.args.clip_mode = "ClipToViewport" /\ r.ops # <<>>) =>
              /\ Len(r.ops) >= 3
              /\ r.ops[1].op = "layer_enter"
              /\ r.ops[2] = Op("set_matrix", r.args.affine)
              /\ r.ops[3] = Op("clip", RectArg(r.args.viewport))
        /\ (r.args.clip_mode = "ClipToVbox" /\ Has(r.ops, "clip")) =>
              /\ r.args.vbox.some
              /\ r.ops[Where(r.ops, "clip")].arg = RectArg(r.args.vbox)
              /\ Where(r.ops, "clip") > 2
              /\ r.ops[Where(r.ops, "clip") - 1].op = "set_matrix"
              /\ r.ops[Where(r.ops, "clip") - 2].op = "push_view_box"
        /\ (r.args.clip_mode = "ClipToVbox" /\ r.args.vbox.some
            /\ Has(r.ops, "draw_fn")) => Has(r.ops, "clip")
        /\ (\/ r.args.clip_mode = "None"
            \/ r.args.clip_mode = "ClipToVbox" /\ ~r.args.vbox.some) =>
              ~Has(r.ops, "clip")

ClipOrderWitness ==
    /\ stack # <<>>
    /\ ret = NoRet
    /\ Top.args.clip_mode = "ClipToVbox"
    /\ Top.args.vbox.some
    /\ Len(clips) = 1
    /\ clips[1].under = matrix
    /\ matrix # Top.args.affine

-----------------------------------------------------------------------------
(* Surfaces.  An ImageSurface is [width, height, px], px the row-major     *)
(* sequence of premultiplied <<alpha, colour>> pixels, 8 bits each.        *)

Surface(w, h, px) == [width |-> w, height |-> h, px |-> px]

\* IRect
IRect(x0, y0, x1, y1) == [x0 |-> x0, y0 |-> y0, x1 |-> x1, y1 |-> y1]

InBounds(s, i, b) ==
    /\ b.x0 <= (i - 1) % s.width
    /\ (i - 1) % s.width < b.x1
    /\ b.y0 <= (i - 1) \div s.width
    /\ (i - 1) \div s.width < b.y1

\* ImageSurface::create(ARgb32, w, h): cleared to transparent
Transparent(w, h) == Surface(w, h, [i \in 1..(w * h) |-> <<0, 0>>])

\* the sRGB transfer function and its inverse, tabulated over 0..255
LINEAR_RGB ==
    <<
        0,   0,   0,   0,   0,   0,   0,   1,   1,   1,   1,   1,   1,   1,   1,   1,
        1,   1,   2,   2,   2,   2,   2,   2,   2,   2,   3,   3,   3,   3,   3,   3,
        4,   4,   4,   4,   4,   5,   5,   5,   5,   6,   6,   6,   6,   7,   7,   7,
        8,   8,   8,   8,   9,   9,   9,  10,  10,  10,  11,  11,  12,  12,  12,  13,
       13,  13,  14,  14,  15,  15,  16,  16,  17,  17,  17,  18,  18,  19,  19,  20,
       20,  21,  22,  22,  23,  23,  24,  24,  25,  25,  26,  27,  27,  28,  29,  29,
       30,  30,  31,  32,  32,  33,  34,  35,  35,  36,  37,  37,  38,  39,  40,  41,
       41,  42,  43,  44,  45,  45,  46,  47,  48,  49,  50,  51,  51,  52,  53,  54,
       55,  56,  57,  58,  59,  60,  61,  62,  63,  64,  65,  66,  67,  68,  69,  70,
       71,  72,  73,  74,  76,  77,  78,  79,  80,  81,  82,  84,  85,  86,  87,  88,
       90,  91,  92,  93,  95,  96,  97,  99, 100, 101, 103, 104, 105, 107, 108, 109,
      111, 112, 114, 115, 116, 118, 119, 121, 122, 124, 125, 127, 128, 130, 131, 133,
      134, 136, 138, 139, 141, 142, 144, 146, 147, 149, 151, 152, 154, 156, 157, 159,
      161, 163, 164, 166, 168, 170, 171, 173, 175, 177, 179, 181, 183, 184, 186, 188,
      190, 192, 194, 196, 198, 200, 202, 204, 206, 208, 210, 212, 214, 216, 218, 220,
      222, 224, 226, 229, 231, 233, 235, 237, 239, 242, 244, 246, 248, 250, 253, 255 >>

SRGB ==
    <<
        0,  13,  22,  28,  34,  38,  42,  46,  50,  53,  56,  59,  61,  64,  66,  69,
       71,  73,  75,  77,  79,  81,  83,  85,  86,  88,  90,  92,  93,  95,  96,  98,
       99, 101, 102, 104, 105, 106, 108, 109, 110, 112, 113, 114, 115, 117, 118, 119,
      120, 121, 122, 124, 125, 126, 127, 128, 129, 130, 131, 132, 133, 134, 135, 136,
      137, 138, 139, 140, 141, 142, 143, 144, 145, 146, 147, 148, 148, 149, 150, 151,
      152, 153, 154, 155, 155, 156, 157, 158, 159, 159, 160, 161, 162, 163, 163, 164,
      165, 166, 167, 167, 168, 169, 170, 170, 171, 172, 173, 173, 174, 175, 175, 176,
      177, 178, 178, 179, 180, 180, 181, 182, 182, 183, 184, 185, 185, 186, 187, 187,
      188, 189, 189, 190, 190, 191, 192, 192, 193, 194, 194, 195, 196, 196, 197, 197,
      198, 199, 199, 200, 200, 201, 202, 202, 203, 203, 204, 205, 205, 206, 206, 207,
      208, 208, 209, 209, 210, 210, 211, 212, 212, 213, 213, 214, 214, 215, 215, 216,
      216, 217, 218, 218, 219, 219, 220, 220, 221, 221, 222, 222, 223, 223, 224, 224,
      225, 226, 226, 227, 227, 228, 228, 229, 229, 230, 230, 231, 231, 232, 232, 233,
      233, 234, 234, 235, 235, 236, 236, 237, 237, 238, 238, 238, 239, 239, 240, 240,
      241, 241, 242, 242, 243, 243, 244, 244, 245, 245, 246, 246, 246, 247, 247, 248,
      248, 249, 249, 250, 250, 251, 251, 251, 252, 252, 253, 253, 254, 254, 255, 255 >>

Unpremultiply(c, a) == (2 * 255 * c + a) \div (2 * a)
Premultiply(c, a) == (2 * c * a + 255) \div (2 * 255)

MapPixel(table, p) ==
    IF p[1] = 0 THEN <<0, 0>>
    ELSE <<p[1], Premultiply(table[Unpremultiply(p[2], p[1]) + 1], p[1])>>

\* srgb::linearize_surface / unlinearize_surface: a new surface, the pixels
\* within bounds converted, the rest transparent
MapSurface(table, s, b) ==
    [s EXCEPT !.px = [i \in 1..Len(@) |->
                        IF InBounds(s, i, b) THEN MapPixel(table, @[i]) ELSE <<0, 0>>]]

LinearizeSurface(s, b) == MapSurface(LINEAR_RGB, s, b)
UnlinearizeSurface(s, b) == MapSurface(SRGB, s, b)

\* cairo's OVER on premultiplied 8-bit channels: src + dst * (255 - src.alpha) / 255
Mul8(a, b) == (((a * b + 128) \div 256) + (a * b + 128)) \div 256
Add8(a, b) == IF a + b > 255 THEN 255 ELSE a + b
Over(src, dst) ==
    <<Add8(src[1], Mul8(dst[1], 255 - src[1])), Add8(src[2], Mul8(dst[2], 255 - src[1]))>>

\* cr.rectangle(bounds); cr.clip(); cr.set_source_surface(input, 0, 0);
\* cr.set_operator(Over); cr.paint()  -- on a context for output_surface
PaintUnder(output_surface, input_surface, b) ==
    [output_surface EXCEPT
        !.px = [i \in 1..Len(@) |->
                  IF InBounds(output_surface, i, b)
                  THEN Over(@[i], input_surface.px[i]) ELSE @[i]]]

Paint(output_surface, input_surface, b) ==
    [output_surface EXCEPT
        !.px = [i \in 1..Len(@) |->
                  IF InBounds(output_surface, i, b)
                  THEN Over(input_surface.px[i], @[i]) ELSE @[i]]]

-----------------------------------------------------------------------------
(* FilterContext and the feMerge node *)

\* Option<ImageSurface>
NoSurface == [some |-> FALSE, s |-> Surface(0, 0, <<>>)]
SomeSurface(s) == [some |-> TRUE, s |-> s]

SourceGraphic == Surface(2, 1, << <<64, 48>>, <<64, 0>> >>)
ResultA == Surface(2, 1, << <<128, 96>>, <<128, 0>> >>)
ResultB == Surface(2, 1, << <<255, 5>>, <<128, 100>> >>)

ResultNames == {"a", "b"}

Contexts ==
    { [source_graphic |-> SourceGraphic,
       results |-> [n \in ResultNames |-> IF n = "a" THEN ResultA ELSE ResultB],
       last |-> l] : l \in {NoSurface, SomeSurface(ResultB)} }

\* in="...": unset, or the name of a result
Inputs == {"Unset", "a", "b", "missing"}

MergeNode(in) == [kind |-> "FilterPrimitiveMergeNode", in_ |-> in]
OtherNode == [kind |-> "Chars", in_ |-> "Unset"]
Children == { MergeNode(in) : in \in Inputs } \cup { OtherNode }

RECURSIVE SeqsUpTo(_, _)
SeqsUpTo(S, n) ==
    IF n = 0 THEN { <<>> }
    ELSE SeqsUpTo(S, n - 1)
         \cup { Append(q, x) : q \in { t \in SeqsUpTo(S, n - 1) : Len(t) = n - 1 }, x \in S }

\* Option<String> of Primitive::result
ResultAttrs == {"None", "r"}

BoundsSet == { IRect(0, 0, 2, 1), IRect(0, 0, 1, 1) }

\* cairo::Status of a backend call that allocates a surface
Statuses == {"Success", "NoMemory"}

\* get_surface(ctx.get_input(in_)): the unset input is the last result, or
\* the source graphic when there is none; an unknown name is InputNotFound
GetInput(context, in) ==
    IF in = "Unset"
    THEN [ok |-> TRUE,
          surface |-> IF context.last.some THEN context.last.s
                      ELSE context.source_graphic]
    ELSE IF in \in DOMAIN context.results
         THEN [ok |-> TRUE, surface |-> context.results[in]]
         ELSE [ok |-> FALSE, surface |-> Surface(0, 0, <<>>)]

Call(name, k) == [op |-> name, child |-> k]

\* node.children().filter(|c| c.get_type() == FilterPrimitiveMergeNode):
\* the position of the next item after position i, 0 when there is none
NextChild(children, i) ==
    IF \E k \in (i + 1)..Len(children) : children[k].kind = "FilterPrimitiveMergeNode"
    THEN CHOOSE k \in (i + 1)..Len(children) :
           /\ children[k].kind = "FilterPrimitiveMergeNode"
           /\ \A j \in (i + 1)..(k - 1) : children[j].kind # "FilterPrimitiveMergeNode"
    ELSE 0

-----------------------------------------------------------------------------
(* MergeNode::render and Merge::render *)

RenderOk(surface, made) ==
    [ok |-> TRUE, err |-> "None", surface |-> surface, calls |-> made]
RenderErr(err, made) ==
    [ok |-> FALSE, err |-> err, surface |-> Surface(0, 0, <<>>), calls |-> made]

\* MergeNode::render for the child at position k, whose in_ resolved to input
MergeNodeRenderInputDefaulted(k, input, context, b, output_surface, status) ==
    IF status # "Success"
    THEN RenderErr("BadInputSurfaceStatus", <<Call("get_input", k), Call("linearize", k)>>)
    ELSE IF ~output_surface.some
    THEN RenderOk(LinearizeSurface(IF input.ok THEN input.surface
                                   ELSE context.source_graphic, b),
                  <<Call("get_input", k), Call("linearize", k)>>)
    ELSE RenderOk(Paint(output_surface.s,
                        LinearizeSurface(IF input.ok THEN input.surface
                                         ELSE context.source_graphic, b), b),
                  <<Call("get_input", k), Call("linearize", k), Call("paint", k)>>)

MergeNodeRenderPaintUnder(k, input, context, b, output_surface, status) ==
    IF ~input.ok
    THEN RenderErr("InputNotFound", <<Call("get_input", k)>>)
    ELSE IF status # "Success"
    THEN RenderErr("BadInputSurfaceStatus", <<Call("get_input", k), Call("linearize", k)>>)
    ELSE IF ~output_surface.some
    THEN RenderOk(LinearizeSurface(input.surface, b),
                  <<Call("get_input", k), Call("linearize", k)>>)
    ELSE RenderOk(PaintUnder(output_surface.s, LinearizeSurface(input.surface, b), b),
                  <<Call("get_input", k), Call("linearize", k), Call("paint", k)>>)

MergeNodeRender(k, input, context, b, output_surface, status) ==
    IF ~input.ok
    THEN RenderErr("InputNotFound", <<Call("get_input", k)>>)
    ELSE IF status # "Success"
    THEN RenderErr("BadInputSurfaceStatus", <<Call("get_input", k), Call("linearize", k)>>)
    ELSE IF ~output_surface.some
    THEN RenderOk(LinearizeSurface(input.surface, b),
                  <<Call("get_input", k), Call("linearize", k)>>)
    ELSE RenderOk(Paint(output_surface.s, LinearizeSurface(input.surface, b), b),
                  <<Call("get_input", k), Call("linearize", k), Call("paint", k)>>)

\* the surface of an empty merge: ImageSurface::create(ARgb32,
\* ctx.source_graphic().get_width(), ctx.source_graphic().get_height())
EmptySurfaceOfBounds(context, b) == Transparent(b.x1 - b.x0, b.y1 - b.y0)

EmptySurface(context, b) ==
    Transparent(context.source_graphic.width, context.source_graphic.height)

NoResult == [kind |-> "None", err |-> "None", name |-> "None",
             surface |-> Surface(0, 0, <<>>), bounds |-> IRect(0, 0, 0, 0)]
Err(e) == [NoResult EXCEPT !.kind = "Err", !.err = e]
\* Ok(FilterResult { name, output: FilterOutput { surface, bounds } })
Ok(name, surface, b) ==
    [kind |-> "Ok", err |-> "None", name |-> name, surface |-> surface, bounds |-> b]

\* Merge::render after the loop: unlinearize the accumulator, or create the
\* empty surface; either may fail with OutputSurfaceCreation
MergeFinishLinear(context, attr, b, output_surface, status) ==
    IF status # "Success"
    THEN [result |-> Err("OutputSurfaceCreation"),
          calls |-> IF output_surface.some THEN <<Call("unlinearize", 0)>>
                    ELSE <<Call("create", 0)>>]
    ELSE IF output_surface.some
    THEN [result |-> Ok(attr, output_surface.s, b), calls |-> <<>>]
    ELSE [result |-> Ok(attr, EmptySurface(context, b), b),
          calls |-> <<Call("create", 0)>>]

MergeFinish(context, attr, b, output_surface, status) ==
    IF status # "Success"
    THEN [result |-> Err("OutputSurfaceCreation"),
          calls |-> IF output_surface.some THEN <<Call("unlinearize", 0)>>
                    ELSE <<Call("create", 0)>>]
    ELSE IF output_surface.some
    THEN [result |-> Ok(attr, UnlinearizeSurface(output_surface.s, b), b),
          calls |-> <<Call("unlinearize", 0)>>]
    ELSE [result |-> Ok(attr, EmptySurface(context, b), b),
          calls |-> <<Call("create", 0)>>]

\* one turn of the for loop: the next merge-node child is rendered onto the
\* accumulator; `?` returns its error from Merge::render
RenderChild(status) ==
    /\ pc = "loop"
    /\ NextChild(node.children, idx) # 0
    /\ \E k \in { NextChild(node.children, idx) } :
       \E input \in { GetInput(ctx, node.children[k].in_) } :
       \E r \in { MergeNodeRender(k, input, ctx, bounds, output, status) } :
           /\ idx' = k
           /\ calls' = calls \o r.calls
           /\ output' = IF r.ok THEN SomeSurface(r.surface) ELSE NoSurface
           /\ pc' = IF r.ok THEN "loop" ELSE "done"
           /\ result' = IF r.ok THEN result ELSE Err(r.err)
    /\ UNCHANGED <<ctx, node, bounds>>

\* the iterator is exhausted: the rest of Merge::render
Finish(status) ==
    /\ pc = "loop"
    /\ NextChild(node.children, idx) = 0
    /\ \E r \in { MergeFinish(ctx, node.result, bounds, output, status) } :
           /\ calls' = calls \o r.calls
           /\ result' = r.result
    /\ idx' = Len(node.children)
    /\ output' = NoSurface
    /\ pc' = "done"
    /\ UNCHANGED <<ctx, node, bounds>>

InitMerge ==
    /\ matrix = Identity
    /\ clips = <<>>
    /\ viewBoxes = <<>>
    /\ layers = <<>>
    /\ toplevel = [args |-> NoArgs, called |-> TRUE]
    /\ stack = <<>>
    /\ ret = NoRet
    /\ ctx \in Contexts
    /\ node \in [children : SeqsUpTo(Children, MaxChildren), result : ResultAttrs]
    /\ bounds \in BoundsSet
    /\ idx = 0
    /\ output = NoSurface
    /\ calls = <<>>
    /\ pc = "loop"
    /\ result = NoResult

NextMerge ==
    \/ \E status \in Statuses : RenderChild(status) /\ UNCHANGED viewportVars
    \/ \E status \in Statuses : Finish(status) /\ UNCHANGED viewportVars

SpecMerge == InitMerge /\ [][NextMerge]_vars

-----------------------------------------------------------------------------
(* Properties of Merge::render *)

IsMergeNode(c) == c.kind = "FilterPrimitiveMergeNode"
MergeNodes == SelectSeq(node.children, IsMergeNode)
MergeNodeAt == { k \in 1..Len(node.children) : IsMergeNode(node.children[k]) }

\* the surfaces the merge-node children name, in document order
InputSurfaces == [i \in 1..Len(MergeNodes) |-> GetInput(ctx, MergeNodes[i].in_).surface]

Called(name) == \E i \in 1..Len(calls) : calls[i].op = name
IsPrefix(p, q) == Len(p) <= Len(q) /\ SubSeq(q, 1, Len(p)) = p

\* the calls of a render in which nothing fails
RECURSIVE ExpectedCalls(_, _, _)
ExpectedCalls(children, k, seen) ==
    IF k > Len(children)
    THEN << Call(IF seen THEN "unlinearize" ELSE "create", 0) >>
    ELSE IF ~IsMergeNode(children[k])
    THEN ExpectedCalls(children, k + 1, seen)
    ELSE <<Call("get_input", k), Call("linearize", k)>>
         \o (IF seen THEN <<Call("paint", k)>> ELSE <<>>)
         \o ExpectedCalls(children, k + 1, TRUE)

\* source-over of the linearized surfaces, each over the ones before it
RECURSIVE Composite(_, _)
Composite(ss, b) ==
    IF Len(ss) = 1 THEN LinearizeSurface(ss[1], b)
    ELSE Paint(Composite(SubSeq(ss, 1, Len(ss) - 1), b),
               LinearizeSurface(ss[Len(ss)], b), b)

Merged(ss, b) == UnlinearizeSurface(Composite(ss, b), b)

Succeeded == pc = "done" /\ result.kind = "Ok"
Full == IRect(0, 0, 2, 1)

PartlyTransparent(p) == 0 < p[1] /\ p[1] < 255

\* two surfaces that overlap within b with different, partially transparent content
OverlapDiffering(s1, s2, b) ==
    /\ \E i \in 1..Len(s1.px) : InBounds(s1, i, b) /\ s1.px[i] # s2.px[i]
    /\ \A i \in 1..Len(s1.px) :
          InBounds(s1, i, b) => PartlyTransparent(s1.px[i]) /\ PartlyTransparent(s2.px[i])

\* C5 as claimed: a render with no merge-node child returns a transparent
\* surface of the source graphic's size, having called neither linearize nor
\* unlinearize nor get_input.
EmptyMergeReturnsTransparent ==
    (pc = "done" /\ MergeNodeAt = {}) =>
        /\ result.kind = "Ok"
        /\ result.surface = Transparent(ctx.source_graphic.width,
                                        ctx.source_graphic.height)
        /\ ~Called("linearize") /\ ~Called("unlinearize") /\ ~Called("get_input")

\* C5, amended: a render with no merge-node child makes one call, the
\* creation of a surface of the source graphic's size; it returns that
\* surface, fully transparent, or fails with OutputSurfaceCreation when the
\* creation fails; it calls neither linearize nor unlinearize nor get_input
\* and cannot fail with BadInputSurfaceStatus or InputNotFound.
EmptyMergeTransparentUnlessCreationFails ==
    (pc = "done" /\ MergeNodeAt = {}) =>
        /\ calls = <<Call("create", 0)>>
        /\ \/ /\ result.kind = "Ok"
              /\ result.surface.width = ctx.source_graphic.width
              /\ result.surface.height = ctx.source_graphic.height
              /\ Len(result.surface.px) = result.surface.width * result.surface.height
              /\ \A i \in 1..Len(result.surface.px) : result.surface.px[i] = <<0, 0>>
           \/ /\ result.kind = "Err"
              /\ result.err = "OutputSurfaceCreation"

\* only children of other kinds, bounds smaller than the source graphic
EmptyMergeWitness ==
    /\ Succeeded
    /\ MergeNodeAt = {}
    /\ Len(node.children) = 2
    /\ bounds # Full

\* C6, the order of compositing: the calls made are, in order, those of the
\* merge-node children in document order (get_input, linearize, and paint
\* for all but the first), then one unlinearize; children of other kinds
\* cause no call; a render of two or more merge-node children that succeeds
\* returns the unlinearized source-over of the linearized inputs, each
\* painted over the earlier ones.
CompositedInDocumentOrder ==
    /\ IsPrefix(calls, ExpectedCalls(node.children, 1, FALSE))
    /\ \A i \in 1..Len(calls) : calls[i].child = 0 \/ calls[i].child \in MergeNodeAt
    /\ (Succeeded /\ Len(MergeNodes) >= 2) =>
          /\ calls = ExpectedCalls(node.children, 1, FALSE)
          /\ Cardinality({ i \in 1..Len(calls) : calls[i].op = "unlinearize" }) = 1
          /\ calls[Len(calls)].op = "unlinearize"
          /\ result.surface = Merged(InputSurfaces, bounds)

SingleChildRoundTrip ==
    (Succeeded /\ Len(MergeNodes) = 1) =>
        /\ result.surface =
              UnlinearizeSurface(LinearizeSurface(InputSurfaces[1], bounds), bounds)
        /\ \A i \in 1..Len(result.surface.px) :
              ~InBounds(result.surface, i, bounds) => result.surface.px[i] = <<0, 0>>
        /\ ~Called("paint")
        /\ result.bounds = bounds
        /\ result.name = node.result
        /\ (MergeNodes = <<MergeNode("b")>> /\ bounds = Full) =>
              result.surface.px = << <<255, 0>>, <<128, 100>> >>

SingleChildWitness ==
    /\ Succeeded
    /\ node.children = <<OtherNode, MergeNode("b")>>
    /\ node.result = "r"
    /\ bounds = Full
    /\ result.surface # ResultB

====
